---- MODULE Spec2Model ----
(***************************************************************************)
(* Model of the Wi-Fi audio tone test tools:                               *)
(*   scripts/tone_udp_rx.py  receiver: Stats, PlaybackStats, the render    *)
(*                           callback of audio_thread, main's receive loop *)
(*   scripts/tone_udp_tx.py  sender: header packing                        *)
(*                                                                         *)
(* Numbers.  TLC's integers are 32 bits wide and signed, the program's     *)
(* are Python's unbounded integers masked with 0xFFFFFFFF.  An integer n   *)
(* is therefore kept as the pair <<hi, lo>> with n = hi * 65536 + lo and   *)
(* 0 <= lo < 65536; hi is any integer (negative for n < 0).  An unsigned   *)
(* 32-bit value is such a pair with 0 <= hi < 65536.                       *)
(*                                                                         *)
(* Bytes.  A bytes / bytearray value is kept run-length encoded: a         *)
(* sequence of runs <<byte, count>>, count > 0, neighbouring runs of       *)
(* different bytes.  The encoding is canonical, so equal byte strings are  *)
(* equal values, and 512 bytes of silence are one run.                     *)
(***************************************************************************)
EXTENDS Integers, Sequences, FiniteSets

\* ------------------------------------------------------------------ bounds

\* Well-formed datagrams the receive loop processes in one run.
MaxPackets == 2

\* Render callbacks the audio subsystem issues in one run.
MaxCallbacks == 2

\* Last instant of the monotonic clock, in seconds.
MaxTime == 5

\* User interrupts delivered in one run.
MaxInterrupts == 2

\* Stats.update calls in one run of the tracker-only specifications.
MaxUpdates == 4

\* Iterations of the sender's loop in one run.
MaxSends == 3

\* Bursts of lost packets in one run of the sender-to-tracker specification.
MaxBursts == 3

\* ---------------------------------------------------- integers as limbs

Base == 65536

IntAdd(a, b) ==
  LET lo == a[2] + b[2]
  IN  <<a[1] + b[1] + (lo \div Base), lo % Base>>

IntSub(a, b) ==
  LET lo == a[2] - b[2]
  IN  <<a[1] - b[1] + (lo \div Base), lo % Base>>

\* n & 0xFFFFFFFF
Mask32(n) == <<n[1] % Base, n[2]>>

IsU32(n) == n[1] >= 0 /\ n[1] < Base /\ n[2] >= 0 /\ n[2] < Base

U32Max == <<Base - 1, Base - 1>>

\* ----------------------------------------------------------------- bytes

RECURSIVE BLen(_)
BLen(s) == IF s = <<>> THEN 0 ELSE s[1][2] + BLen(Tail(s))

\* s + t
BCat(s, t) ==
  IF s = <<>> THEN t
  ELSE IF t = <<>> THEN s
  ELSE IF s[Len(s)][1] = t[1][1]
       THEN SubSeq(s, 1, Len(s) - 1)
              \o <<<<t[1][1], s[Len(s)][2] + t[1][2]>>>> \o Tail(t)
       ELSE s \o t

\* s[:n]
RECURSIVE BTake(_, _)
BTake(s, n) ==
  IF n <= 0 \/ s = <<>> THEN <<>>
  ELSE IF s[1][2] >= n THEN <<<<s[1][1], n>>>>
  ELSE <<s[1]>> \o BTake(Tail(s), n - s[1][2])

\* s[n:]
RECURSIVE BDrop(_, _)
BDrop(s, n) ==
  IF n <= 0 \/ s = <<>> THEN s
  ELSE IF s[1][2] > n THEN <<<<s[1][1], s[1][2] - n>>>> \o Tail(s)
  ELSE BDrop(Tail(s), n - s[1][2])

\* b"\x00" * n
BZeros(n) == IF n <= 0 THEN <<>> ELSE <<<<0, n>>>>

\* s[i - 1], the i-th byte
RECURSIVE ByteAt(_, _)
ByteAt(s, i) ==
  IF i <= s[1][2] THEN s[1][1] ELSE ByteAt(Tail(s), i - s[1][2])

\* list(s): the byte values one by one
BToSeq(s) == [i \in 1..BLen(s) |-> ByteAt(s, i)]

\* The positions of q at which a run starts.
RunStarts(q) == {i \in DOMAIN q : i = 1 \/ q[i] # q[i - 1]}

\* The k-th of them, and Len(q) + 1 after the last.
RunStart(q, k) ==
  IF k > Cardinality(RunStarts(q)) THEN Len(q) + 1
  ELSE CHOOSE i \in RunStarts(q) :
         Cardinality({j \in RunStarts(q) : j <= i}) = k

\* bytes(q) for a sequence q of byte values
BFromSeq(q) ==
  [k \in 1..Cardinality(RunStarts(q)) |->
     <<q[RunStart(q, k)], RunStart(q, k + 1) - RunStart(q, k)>>]

BAllZero(s) == \A i \in DOMAIN s : s[i][1] = 0

\* ----------------------------------------------------------- packet codec

HEADER_LEN == 12

\* struct.pack(">I", v): four bytes, most significant first
PackU32(v) == <<v[1] \div 256, v[1] % 256, v[2] \div 256, v[2] % 256>>

\* struct.unpack(">I", b)
UnpackU32(b) == <<b[1] * 256 + b[2], b[3] * 256 + b[4]>>

\* struct.pack(HEADER_FMT, seq, sample_counter, timestamp_us)
PackHeader(seq, sample_counter, timestamp_us) ==
  BFromSeq(PackU32(seq) \o PackU32(sample_counter) \o PackU32(timestamp_us))

\* header + pcm_payload, the datagram handed to sendto
Encode(seq, sample_counter, timestamp_us, payload) ==
  BCat(PackHeader(seq, sample_counter, timestamp_us), payload)

\* len(packet) <= HEADER_LEN
UndersizedMutant(packet) == BLen(packet) < HEADER_LEN

Undersized(packet) == BLen(packet) <= HEADER_LEN

\* packet[HEADER_LEN:]
PayloadOfMutant(packet) == BDrop(packet, HEADER_LEN + 1)

PayloadOf(packet) == BDrop(packet, HEADER_LEN)

\* struct.unpack(HEADER_FMT, packet[:HEADER_LEN])
UnpackHeader(packet) ==
  LET header == BToSeq(BTake(packet, HEADER_LEN))
  IN  <<UnpackU32(SubSeq(header, 1, 4)),
        UnpackU32(SubSeq(header, 5, 8)),
        UnpackU32(SubSeq(header, 9, 12))>>

\* The receive loop's treatment of one datagram: rejected when undersized,
\* otherwise split into the three header fields and the payload.
Decode(packet) ==
  IF Undersized(packet)
  THEN [ok |-> FALSE, fields |-> <<>>, payload |-> <<>>]
  ELSE [ok |-> TRUE, fields |-> UnpackHeader(packet),
        payload |-> PayloadOf(packet)]

\* ------------------------------------------------------------- variables

VARIABLES
  \* the receiver, main thread
  args,            \* parsed command line
  env,             \* which optional modules imported (sd, wave)
  pc,              \* main's position
  exc,             \* exception main is unwinding with ("none" if none)
  exit_code,       \* process exit status (-1 while running)
  sock,            \* "none" | "open" | "closed"
  wav_writer,      \* [state: "None" | "open" | "closed", frames: bytes]
  playback_queue,  \* [state: "unbound" | "None" | "Queue", items: chunks]
  playback_stats,  \* [exists, underflows, max_depth]
  buffered_bytes,  \* main's local of that name
  stop_event,      \* threading.Event
  packet,          \* main's local: the datagram last received
  stats,           \* the Stats object
  now,             \* time.monotonic(), seconds
  shutdown,        \* the steps of the finally clause done so far, in order
  interrupts,      \* user interrupts delivered so far
  raised_at,       \* main's position when KeyboardInterrupt was last raised
  \* the receiver, audio thread and render callback
  audio,           \* "none" | "started" | "playing" | "exited"
  needed_bytes,    \* the callback's local, as of the last callback
  pending,         \* audio_thread's bytearray
  outdata,         \* what the last callback handed to the sink
  callbacks,       \* callbacks issued so far
  \* the tracker on its own
  call,            \* arguments of the latest Stats.update: <<seq, payload_len>>
  \* the codec on its own
  msg,             \* [fields: <<seq, sample_counter, timestamp_us>>, payload]
  wire,            \* the datagram on the wire
  decoded,         \* what the receiver made of it
  codec_pc,        \* "input" | "sent" | "received"
  \* the receiver, what the sink and the feeder have seen so far
  sink,            \* every byte handed to the sink, in order
  fed,             \* every chunk taken off the queue, and the padding, in order
  \* the sender
  tx_args,         \* [samples_per_packet, interval_s, pcm_payload]
  tx_pc,           \* "off" | "loop" | "finally" | "done" | "crashed"
  tx_exc,          \* exception the sender is unwinding with
  tx_seq,          \* main's local seq
  tx_sample_counter, \* main's local sample_counter
  next_send,       \* main's local: deadline of the next send, in ticks
  tx_now,          \* time.perf_counter(), in ticks
  k0,              \* loop iterations completed before the first one shown
  iterations,      \* loop iterations completed since
  sent,            \* the latest iteration's send: what, when, against which
                   \* deadline, whether it slept, what sendto returned
  \* the network between sender and receiver
  first_seq        \* sequence number of the first datagram delivered

mainVars == <<args, env, pc, exc, exit_code, sock, wav_writer, playback_queue,
              playback_stats, buffered_bytes, stop_event, packet, now,
              shutdown, interrupts, raised_at>>

audioVars == <<audio, needed_bytes, pending, outdata, callbacks, sink, fed>>

codecVars == <<msg, wire, decoded, codec_pc>>

txVars == <<tx_args, tx_pc, tx_exc, tx_seq, tx_sample_counter, next_send,
           tx_now, k0, iterations, sent, first_seq>>

vars == <<mainVars, audioVars, stats, call, codecVars, txVars>>

\* ----------------------------------------------------------------- Stats

\* Stats.__init__.  last_seq = <<>> is None.  start_time and intervals are
\* written and only ever read for the logged rates, which are not modelled.
NewStats(t) ==
  [last_seq |-> <<>>, lost_packets |-> <<0, 0>>, total_received |-> 0,
   received_since_last_report |-> 0, total_bytes |-> 0, last_report |-> t]

\* expected taken to be last_seq itself
ExpectedIsLast(last_seq) == Mask32(last_seq)

\* expected = (self.last_seq + 1) & 0xFFFFFFFF
Expected(last_seq) == Mask32(IntAdd(last_seq, <<0, 1>>))

\* The gap measured from last_seq instead of from expected.
GapFromLast(seq, expected) ==
  Mask32(IntAdd(IntSub(seq, expected), <<0, 1>>))

\* gap = (seq - expected) & 0xFFFFFFFF
Gap(seq, expected) == Mask32(IntSub(seq, expected))

\* Stats.update with the wraparound handling left out.
UpdateNoWrap(st, seq, payload_len) ==
  LET expected == IntAdd(st.last_seq, <<0, 1>>)
      lost == IF st.last_seq # <<>> /\ seq # expected
              THEN IntAdd(st.lost_packets, IntSub(seq, expected))
              ELSE st.lost_packets
  IN  [st EXCEPT !.lost_packets = lost,
                 !.last_seq = seq,
                 !.total_received = @ + 1,
                 !.received_since_last_report = @ + 1,
                 !.total_bytes = @ + payload_len]

\* Stats.update
Update(st, seq, payload_len) ==
  LET lost == IF st.last_seq # <<>> /\ seq # Expected(st.last_seq)
              THEN IntAdd(st.lost_packets, Gap(seq, Expected(st.last_seq)))
              ELSE st.lost_packets
  IN  [st EXCEPT !.lost_packets = lost,
                 !.last_seq = seq,
                 !.total_received = @ + 1,
                 !.received_since_last_report = @ + 1,
                 !.total_bytes = @ + payload_len]

\* Stats.report_needed
ReportNeeded(st, t, period_s) == t - st.last_report >= period_s

\* Stats.report: logs, then starts the next window
Report(st, t) ==
  [st EXCEPT !.received_since_last_report = 0, !.last_report = t]

\* ------------------------------------------- the parts not running

\* The receiver before main is entered; the tracker-only and codec-only
\* specifications leave it there.
NoArgs == [sample_rate |-> 0, channels |-> 0, jitter_buffer_ms |-> 0,
           save_wav |-> FALSE, no_audio |-> FALSE]

MainOff ==
  /\ args = NoArgs
  /\ env = [sd |-> FALSE, wave |-> FALSE]
  /\ pc = "off"
  /\ exc = "none"
  /\ exit_code = -1
  /\ sock = "none"
  /\ wav_writer = [state |-> "None", frames |-> <<>>]
  /\ playback_queue = [state |-> "unbound", items |-> <<>>]
  /\ playback_stats = [exists |-> FALSE, underflows |-> 0, max_depth |-> 0]
  /\ buffered_bytes = 0
  /\ stop_event = FALSE
  /\ packet = <<>>
  /\ now = 0
  /\ shutdown = <<>>
  /\ interrupts = 0
  /\ raised_at = "none"

AudioOff ==
  /\ audio = "none"
  /\ needed_bytes = 0
  /\ pending = <<>>
  /\ outdata = <<>>
  /\ callbacks = 0
  /\ sink = <<>>
  /\ fed = <<>>

NoDecode == [ok |-> FALSE, fields |-> <<>>, payload |-> <<>>]

CodecOff ==
  /\ msg = [fields |-> <<>>, payload |-> <<>>]
  /\ wire = <<>>
  /\ decoded = NoDecode
  /\ codec_pc = "off"

NoSend == [datagram |-> <<>>, clock |-> <<0, 0>>, at |-> 0, deadline |-> 0,
           slept |-> FALSE, returned |-> 0]

\* The sender before main is entered.
TxOff ==
  /\ tx_args = [samples_per_packet |-> 0, interval_s |-> 0,
                pcm_payload |-> <<>>]
  /\ tx_pc = "off"
  /\ tx_exc = "none"
  /\ tx_seq = <<0, 0>>
  /\ tx_sample_counter = <<0, 0>>
  /\ next_send = 0
  /\ tx_now = 0
  /\ k0 = <<0, 0>>
  /\ iterations = 0
  /\ sent = NoSend
  /\ first_seq = <<>>

\* ------------------------------------------------ the tracker on its own

\* Sequence numbers fed to Stats.update: both ends of the 32-bit range, the
\* carry between the two limbs, and the spec's 5 and 8.
SeqInputs == { <<0, 0>>, <<0, 1>>, <<0, 5>>, <<0, 8>>, <<0, Base - 1>>,
               <<1, 0>>, <<Base - 1, Base - 2>>, U32Max }

LenInputs == {2, 4}

InitStats ==
  /\ MainOff /\ AudioOff /\ CodecOff /\ TxOff
  /\ stats = NewStats(0)
  /\ call = <<>>

\* stats.update(seq, len(payload)) with any sequence number
StatsUpdate ==
  /\ stats.total_received < MaxUpdates
  /\ \E seq \in SeqInputs, payload_len \in LenInputs :
       /\ call' = <<seq, payload_len>>
       /\ stats' = Update(stats, seq, payload_len)
  /\ UNCHANGED <<mainVars, audioVars, codecVars, txVars>>

SpecStats == InitStats /\ [][StatsUpdate]_vars

\* seq = (seq + 1) & 0xFFFFFFFF, the sender's step from one packet to the next
TxNextSeq(seq) == Mask32(IntAdd(seq, <<0, 1>>))

\* The first packet of a stream that then arrives without a gap.
GaplessFirst ==
  /\ stats.last_seq = <<>>
  /\ \E seq \in SeqInputs, payload_len \in LenInputs :
       /\ call' = <<seq, payload_len>>
       /\ stats' = Update(stats, seq, payload_len)
  /\ UNCHANGED <<mainVars, audioVars, codecVars, txVars>>

\* Each further packet carries the sender's next sequence number.
GaplessNext ==
  /\ stats.last_seq # <<>>
  /\ stats.total_received < MaxUpdates
  /\ \E payload_len \in LenInputs :
       /\ call' = <<TxNextSeq(stats.last_seq), payload_len>>
       /\ stats' = Update(stats, TxNextSeq(stats.last_seq), payload_len)
  /\ UNCHANGED <<mainVars, audioVars, codecVars, txVars>>

SpecGapless == InitStats /\ [][GaplessFirst \/ GaplessNext]_vars

\* C1: while every packet carries the sequence number after the one before
\* it, modulo 2^32, no packet is counted as lost, whatever the first
\* sequence number and however many updates; that includes the update that
\* takes last_seq from 4294967295 to 0.
C1_GaplessNoLoss == stats.lost_packets = <<0, 0>>

C1_Witness ==
  /\ stats.last_seq = <<0, 0>>
  /\ stats.total_received = 3
  /\ stats.lost_packets = <<0, 0>>

\* What one Stats.update does to the tracker, with the number of packets
\* counted lost for last_seq = 5, seq = 8 left open: the increase d of
\* lost_packets is an unsigned 32-bit value with last_seq + 1 + d = seq
\* modulo 2^32, which makes it (seq - (last_seq + 1)) mod 2^32.
UpdateStepIs(lost_5_to_8) ==
  (call' # call \/ stats' # stats) =>
    LET seq == call'[1]
        payload_len == call'[2]
        d == IntSub(stats'.lost_packets, stats.lost_packets)
    IN  /\ stats'.last_seq = seq
        /\ stats'.total_received = stats.total_received + 1
        /\ stats'.total_bytes = stats.total_bytes + payload_len
        /\ stats.last_seq # <<>> =>
             /\ IsU32(d)
             /\ Mask32(IntAdd(IntAdd(stats.last_seq, <<0, 1>>), d)) = seq
             /\ (stats.last_seq = <<0, 5>> /\ seq = <<0, 8>>) =>
                  d = <<0, lost_5_to_8>>
             /\ seq = IntAdd(stats.last_seq, <<0, 1>>) => d = <<0, 0>>

\* C2 as stated: an update with last_seq set adds
\* (seq - (last_seq + 1)) mod 2^32 to lost_packets, 0 for the expected
\* sequence number and 3 for last_seq = 5, seq = 8; every update sets
\* last_seq to seq, adds 1 to total_received and payload_len to total_bytes.
C2_AsStated == [][UpdateStepIs(3)]_vars

\* C2, amended: the same, with 2 packets (6 and 7) counted lost for
\* last_seq = 5, seq = 8, as the formula (seq - (last_seq + 1)) mod 2^32
\* gives.
C2_UpdateEffect == [][UpdateStepIs(2)]_vars

\* The update from 5 to 8 has happened.
C2_Witness ==
  /\ call # <<>>
  /\ call[1] = <<0, 8>>
  /\ stats.last_seq = <<0, 8>>
  /\ stats.lost_packets = <<0, 2>>
  /\ stats.total_received = 2

\* -------------------------------------------------- the codec on its own

FieldInputs == { <<0, 0>>, <<0, 258>>, <<4660, 22136>>, U32Max }

\* Payloads handed to the codec: none, one byte, a sample, two samples.
PayloadInputs == { <<>>, <<<<7, 1>>>>, <<<<1, 1>>, <<2, 1>>>>,
                   <<<<0, 2>>, <<255, 1>>, <<128, 1>>>> }

InitCodec ==
  /\ MainOff /\ AudioOff /\ TxOff
  /\ stats = NewStats(0)
  /\ call = <<>>
  /\ msg \in [fields : FieldInputs \X FieldInputs \X FieldInputs,
              payload : PayloadInputs]
  /\ wire = <<>>
  /\ decoded = NoDecode
  /\ codec_pc = "input"

\* The sender's header = struct.pack(...); sendto(header + pcm_payload)
CodecSend ==
  /\ codec_pc = "input"
  /\ wire' = Encode(msg.fields[1], msg.fields[2], msg.fields[3], msg.payload)
  /\ codec_pc' = "sent"
  /\ UNCHANGED <<mainVars, audioVars, stats, call, msg, decoded, txVars>>

\* The receiver's length check, split and unpack of the datagram
CodecReceive ==
  /\ codec_pc = "sent"
  /\ decoded' = Decode(wire)
  /\ codec_pc' = "received"
  /\ UNCHANGED <<mainVars, audioVars, stats, call, msg, wire, txVars>>

SpecCodec == InitCodec /\ [][CodecSend \/ CodecReceive]_vars

\* C3 as stated: for any three header fields and any payload, what the
\* receiver decodes from the sender's datagram is the tuple that was encoded.
C3_AsStated ==
  codec_pc = "received" =>
    /\ decoded.ok
    /\ decoded.fields = msg.fields
    /\ decoded.payload = msg.payload

\* C3, amended: for any three unsigned 32-bit header fields and any payload
\* of at least one byte, the datagram is 12 bytes longer than the payload
\* and what the receiver decodes from it is the tuple that was encoded.
C3_RoundTrip ==
  /\ (codec_pc # "input" /\ msg.payload # <<>>) =>
       BLen(wire) = HEADER_LEN + BLen(msg.payload)
  /\ (codec_pc = "received" /\ msg.payload # <<>>) =>
       /\ decoded.ok
       /\ decoded.fields = msg.fields
       /\ decoded.payload = msg.payload

C3_Witness ==
  /\ codec_pc = "received"
  /\ decoded.ok
  /\ decoded.fields = <<U32Max, <<0, 258>>, <<4660, 22136>>>>
  /\ decoded.payload = <<<<0, 2>>, <<255, 1>>, <<128, 1>>>>
  /\ msg.fields = decoded.fields

\* ------------------------------------------------- the receiver: set-up

INT16_BYTES == 2

QUEUE_MAXSIZE == 64

\* The 5.0 handed to stats.report_needed, seconds.
REPORT_PERIOD == 5

\* sock.settimeout(1.0), seconds.
SOCKET_TIMEOUT == 1

\* Frames of silence in zero_chunk.
ZERO_CHUNK_FRAMES == 256

\* Frames the receive buffer has room for.
RECV_FRAMES == 2048

Min(a, b) == IF a < b THEN a ELSE b

Max(a, b) == IF a > b THEN a ELSE b

\* int(args.sample_rate * (args.jitter_buffer_ms / 1000.0)), for a depth
\* given in whole milliseconds
JitterBufferSamples == (args.sample_rate * args.jitter_buffer_ms) \div 1000

BytesPerFrame == INT16_BYTES * args.channels

TargetBufferBytes == JitterBufferSamples * BytesPerFrame

\* len(zero_chunk)
ZeroChunkLen == IF BytesPerFrame > 0 THEN BytesPerFrame * ZERO_CHUNK_FRAMES ELSE 0

\* The size handed to sock.recvfrom; a longer datagram is cut to it.
RecvBufSize == HEADER_LEN + BytesPerFrame * RECV_FRAMES

Args(sample_rate, channels, jitter_buffer_ms, save_wav, no_audio) ==
  [sample_rate |-> sample_rate, channels |-> channels,
   jitter_buffer_ms |-> jitter_buffer_ms, save_wav |-> save_wav,
   no_audio |-> no_audio]

Env(sd, wave) == [sd |-> sd, wave |-> wave]

\* Command lines and installations, <<args, env>>: the three rejected
\* geometries; WAV capture asked for without the wave module; playback with
\* a jitter depth of 300 two-channel frames (two chunks of silence, with WAV
\* capture), of 16384 samples (64 chunks, the queue exactly full) and of
\* 16646 samples (66 chunks); --no-audio with WAV capture; and no
\* sounddevice module without --no-audio.
ConfigInputs ==
  { <<Args(0, 1, 2, FALSE, FALSE), Env(TRUE, TRUE)>>,
    <<Args(1000, 0, 2, FALSE, FALSE), Env(TRUE, TRUE)>>,
    <<Args(1000, 1, 0, FALSE, FALSE), Env(TRUE, TRUE)>>,
    <<Args(1000, 1, 2, TRUE, FALSE), Env(TRUE, FALSE)>>,
    <<Args(1000, 2, 300, TRUE, FALSE), Env(TRUE, TRUE)>>,
    <<Args(16384, 1, 1000, TRUE, FALSE), Env(TRUE, TRUE)>>,
    <<Args(16384, 1, 1016, FALSE, FALSE), Env(TRUE, TRUE)>>,
    <<Args(1000, 1, 2, TRUE, TRUE), Env(TRUE, TRUE)>>,
    <<Args(1000, 1, 2, FALSE, FALSE), Env(FALSE, TRUE)>>,
    <<Args(600, 1, 1, FALSE, TRUE), Env(TRUE, TRUE)>>,
    <<Args(1600, 1, 1, FALSE, TRUE), Env(TRUE, TRUE)>> }

Init ==
  /\ \E config \in ConfigInputs : args = config[1] /\ env = config[2]
  /\ pc = "validate"
  /\ exc = "none"
  /\ exit_code = -1
  /\ sock = "none"
  /\ wav_writer = [state |-> "None", frames |-> <<>>]
  /\ playback_queue = [state |-> "unbound", items |-> <<>>]
  /\ playback_stats = [exists |-> FALSE, underflows |-> 0, max_depth |-> 0]
  /\ buffered_bytes = 0
  /\ stop_event = FALSE
  /\ packet = <<>>
  /\ now = 0
  /\ shutdown = <<>>
  /\ interrupts = 0
  /\ raised_at = "none"
  /\ AudioOff
  /\ stats = NewStats(0)
  /\ call = <<>>
  /\ CodecOff
  /\ TxOff

\* The process is running: main has neither returned nor died.
Alive == pc \notin {"off", "done", "crashed"}

\* return 1 (the socket, if open, is left to the exiting process)
Return1 ==
  /\ pc' = "done"
  /\ exit_code' = 1

\* stats = Stats(); buffered_bytes = target_buffer_bytes; enter the loop
EnterLoop ==
  /\ stats' = NewStats(now)
  /\ buffered_bytes' = TargetBufferBytes
  /\ pc' = "recv"

\* The checks of the arguments, then the socket.
Validate ==
  /\ pc = "validate"
  /\ IF args.sample_rate <= 0 \/ args.channels <= 0 \/ JitterBufferSamples <= 0
     THEN Return1 /\ UNCHANGED sock
     ELSE /\ sock' = "open"
          /\ pc' = "open_wav"
          /\ UNCHANGED exit_code
  /\ UNCHANGED <<args, env, exc, wav_writer, playback_queue, playback_stats,
                 buffered_bytes, stop_event, packet, now, shutdown,
                 interrupts, raised_at, audioVars, stats, call, codecVars, txVars>>

\* if args.save_wav: ...
OpenWav ==
  /\ pc = "open_wav"
  /\ IF args.save_wav /\ ~env.wave
     THEN Return1 /\ UNCHANGED wav_writer
     ELSE /\ wav_writer' = IF args.save_wav
                           THEN [state |-> "open", frames |-> <<>>]
                           ELSE wav_writer
          /\ pc' = "setup_audio"
          /\ UNCHANGED exit_code
  /\ UNCHANGED <<args, env, exc, sock, playback_queue, playback_stats,
                 buffered_bytes, stop_event, packet, now, shutdown,
                 interrupts, raised_at, audioVars, stats, call, codecVars, txVars>>

\* if not args.no_audio and sd is not None: the queue and its counters
SetupPlayback ==
  /\ pc = "setup_audio"
  /\ ~args.no_audio /\ env.sd
  /\ playback_queue' = [state |-> "Queue", items |-> <<>>]
  /\ playback_stats' = [exists |-> TRUE, underflows |-> 0, max_depth |-> 0]
  /\ buffered_bytes' = 0
  /\ pc' = IF TargetBufferBytes > 0 /\ ZeroChunkLen > 0
           THEN "prefill" ELSE "start_audio"
  /\ UNCHANGED <<args, env, exc, exit_code, sock, wav_writer, stop_event,
                 packet, now, shutdown, interrupts, raised_at, audioVars,
                 stats, call, codecVars, txVars>>

\* elif args.no_audio: playback_queue = None
SetupNoAudio ==
  /\ pc = "setup_audio"
  /\ args.no_audio
  /\ playback_queue' = [state |-> "None", items |-> <<>>]
  /\ EnterLoop
  /\ UNCHANGED <<args, env, exc, exit_code, sock, wav_writer, playback_stats,
                 stop_event, packet, now, shutdown, interrupts, raised_at,
                 audioVars, call, codecVars, txVars>>

\* else: a warning; playback_queue, only annotated so far, stays unbound
SetupNoSounddevice ==
  /\ pc = "setup_audio"
  /\ ~args.no_audio /\ ~env.sd
  /\ EnterLoop
  /\ UNCHANGED <<args, env, exc, exit_code, sock, wav_writer, playback_queue,
                 playback_stats, stop_event, packet, now, shutdown,
                 interrupts, raised_at, audioVars, call, codecVars, txVars>>

\* The prefill loop putting the whole zero_chunk every time.
PrefillPutWholeChunk ==
  /\ pc = "prefill"
  /\ buffered_bytes < TargetBufferBytes
  /\ Len(playback_queue.items) < QUEUE_MAXSIZE
  /\ playback_queue' =
       [playback_queue EXCEPT !.items = Append(@, BZeros(ZeroChunkLen))]
  /\ buffered_bytes' = buffered_bytes + ZeroChunkLen
  /\ UNCHANGED <<args, env, pc, exc, exit_code, sock, wav_writer,
                 playback_stats, stop_event, packet, now, shutdown,
                 interrupts, raised_at, audioVars, stats, call, codecVars, txVars>>

\* One turn of the prefill loop.  put() has no timeout: with the queue full
\* and nothing draining it yet, main stays here.
PrefillPut ==
  /\ pc = "prefill"
  /\ buffered_bytes < TargetBufferBytes
  /\ Len(playback_queue.items) < QUEUE_MAXSIZE
  /\ LET chunk_len == Min(ZeroChunkLen, TargetBufferBytes - buffered_bytes)
     IN  /\ playback_queue' =
               [playback_queue EXCEPT !.items = Append(@, BZeros(chunk_len))]
         /\ buffered_bytes' = buffered_bytes + chunk_len
  /\ UNCHANGED <<args, env, pc, exc, exit_code, sock, wav_writer,
                 playback_stats, stop_event, packet, now, shutdown,
                 interrupts, raised_at, audioVars, stats, call, codecVars, txVars>>

\* The prefill loop's exit.
PrefillDone ==
  /\ pc = "prefill"
  /\ buffered_bytes >= TargetBufferBytes
  /\ pc' = "start_audio"
  /\ UNCHANGED <<args, env, exc, exit_code, sock, wav_writer, playback_queue,
                 playback_stats, buffered_bytes, stop_event, packet, now,
                 shutdown, interrupts, raised_at, audioVars, stats, call,
                 codecVars, txVars>>

\* audio_thread_obj.start(), then the loop's set-up
StartAudio ==
  /\ pc = "start_audio"
  /\ audio' = "started"
  /\ EnterLoop
  /\ UNCHANGED <<args, env, exc, exit_code, sock, wav_writer, playback_queue,
                 playback_stats, stop_event, packet, now, shutdown,
                 interrupts, raised_at, needed_bytes, pending, outdata,
                 callbacks, sink, fed, call, codecVars, txVars>>

\* ------------------------------------------- the receiver: receive loop

RxSeqInputs == { <<0, 1>>, U32Max }

\* Two samples, and a payload longer than a one-channel receive buffer.
RxPayloadInputs == { <<<<1, 1>>, <<2, 1>>, <<3, 2>>>>, <<<<9, 5000>>>> }

\* A datagram of 12 bytes, the longest that is rejected.
UndersizedInputs == { <<<<0, 12>>>> }

WellFormedInputs ==
  { Encode(seq, <<0, 441>>, <<1, 2>>, payload) :
      seq \in RxSeqInputs, payload \in RxPayloadInputs }

\* How long recvfrom waited for a datagram: less than a second or about one.
WaitInputs == {0, SOCKET_TIMEOUT}

\* except socket.timeout: a report if one is due; continue
RecvTimeout ==
  /\ pc = "recv"
  /\ now + SOCKET_TIMEOUT <= MaxTime
  /\ now' = now + SOCKET_TIMEOUT
  /\ stats' = IF ReportNeeded(stats, now', REPORT_PERIOD)
              THEN Report(stats, now') ELSE stats
  /\ UNCHANGED <<args, env, pc, exc, exit_code, sock, wav_writer,
                 playback_queue, playback_stats, buffered_bytes, stop_event,
                 packet, shutdown, interrupts, raised_at, audioVars, call,
                 codecVars, txVars>>

\* A datagram that fails the length check: a warning; continue
RecvUndersized ==
  /\ pc = "recv"
  /\ \E datagram \in UndersizedInputs \cup WellFormedInputs, wait \in WaitInputs :
       /\ now + wait <= MaxTime
       /\ Undersized(BTake(datagram, RecvBufSize))
       /\ packet' = BTake(datagram, RecvBufSize)
       /\ now' = now + wait
  /\ UNCHANGED <<args, env, pc, exc, exit_code, sock, wav_writer,
                 playback_queue, playback_stats, buffered_bytes, stop_event,
                 shutdown, interrupts, raised_at, audioVars, stats, call,
                 codecVars, txVars>>

\* A datagram that passes it: unpack, stats.update, the WAV file, and the
\* read of playback_queue that decides what comes next.
RecvPacket ==
  /\ pc = "recv"
  /\ stats.total_received < MaxPackets
  /\ \E datagram \in UndersizedInputs \cup WellFormedInputs, wait \in WaitInputs :
       /\ now + wait <= MaxTime
       /\ ~Undersized(BTake(datagram, RecvBufSize))
       /\ packet' = BTake(datagram, RecvBufSize)
       /\ now' = now + wait
  /\ LET payload == PayloadOf(packet')
         seq == UnpackHeader(packet')[1]
     IN  /\ stats' = Update(stats, seq, BLen(payload))
         /\ wav_writer' = IF wav_writer.state = "open"
                          THEN [wav_writer EXCEPT !.frames = BCat(@, payload)]
                          ELSE wav_writer
  /\ IF playback_queue.state = "unbound"
     THEN /\ exc' = "UnboundLocalError"
          /\ pc' = "finally_stop"
     ELSE /\ pc' = IF playback_queue.state = "Queue" THEN "put" ELSE "report"
          /\ UNCHANGED exc
  /\ UNCHANGED <<args, env, exit_code, sock, playback_queue, playback_stats,
                 buffered_bytes, stop_event, shutdown, interrupts, raised_at,
                 audioVars, call, codecVars, txVars>>

\* The put on a queue made without maxsize: there is always room.
PutOkUnbounded ==
  /\ pc = "put"
  /\ playback_queue' =
       [playback_queue EXCEPT !.items = Append(@, PayloadOf(packet))]
  /\ buffered_bytes' =
       Min(buffered_bytes + BLen(PayloadOf(packet)), TargetBufferBytes)
  /\ pc' = "report"
  /\ UNCHANGED <<args, env, exc, exit_code, sock, wav_writer, playback_stats,
                 stop_event, packet, now, shutdown, interrupts, raised_at,
                 audioVars, stats, call, codecVars, txVars>>

\* playback_queue.put(payload, timeout=0.05) finding room
PutOk ==
  /\ pc = "put"
  /\ Len(playback_queue.items) < QUEUE_MAXSIZE
  /\ playback_queue' =
       [playback_queue EXCEPT !.items = Append(@, PayloadOf(packet))]
  /\ buffered_bytes' =
       Min(buffered_bytes + BLen(PayloadOf(packet)), TargetBufferBytes)
  /\ pc' = "report"
  /\ UNCHANGED <<args, env, exc, exit_code, sock, wav_writer, playback_stats,
                 stop_event, packet, now, shutdown, interrupts, raised_at,
                 audioVars, stats, call, codecVars, txVars>>

\* The dropped chunk taken back out of the statistics.
PutFullUncounted ==
  /\ pc = "put"
  /\ Len(playback_queue.items) >= QUEUE_MAXSIZE
  /\ buffered_bytes' = IF buffered_bytes >= TargetBufferBytes
                       THEN TargetBufferBytes ELSE buffered_bytes
  /\ stats' = [stats EXCEPT !.total_received = @ - 1,
                            !.received_since_last_report = @ - 1,
                            !.total_bytes = @ - BLen(PayloadOf(packet))]
  /\ pc' = "report"
  /\ UNCHANGED <<args, env, exc, exit_code, sock, wav_writer, playback_queue,
                 playback_stats, stop_event, packet, now, shutdown,
                 interrupts, raised_at, audioVars, call, codecVars, txVars>>

\* ... finding none for the whole 0.05 s: queue.Full, the chunk is dropped
PutFull ==
  /\ pc = "put"
  /\ Len(playback_queue.items) >= QUEUE_MAXSIZE
  /\ buffered_bytes' = IF buffered_bytes >= TargetBufferBytes
                       THEN TargetBufferBytes ELSE buffered_bytes
  /\ pc' = "report"
  /\ UNCHANGED <<args, env, exc, exit_code, sock, wav_writer, playback_queue,
                 playback_stats, stop_event, packet, now, shutdown,
                 interrupts, raised_at, audioVars, stats, call, codecVars, txVars>>

\* PlaybackStats.snapshot, the counters read and zeroed under the lock
Snapshot(ps) == [ps EXCEPT !.underflows = 0, !.max_depth = 0]

\* if stats.report_needed(5.0): the report and, with playback, the snapshot
ReportStep ==
  /\ pc = "report"
  /\ IF ReportNeeded(stats, now, REPORT_PERIOD)
     THEN /\ stats' = Report(stats, now)
          /\ playback_stats' =
               IF playback_queue.state = "Queue" /\ playback_stats.exists
               THEN Snapshot(playback_stats) ELSE playback_stats
     ELSE UNCHANGED <<stats, playback_stats>>
  /\ pc' = "recv"
  /\ UNCHANGED <<args, env, exc, exit_code, sock, wav_writer, playback_queue,
                 buffered_bytes, stop_event, packet, now, shutdown,
                 interrupts, raised_at, audioVars, call, codecVars, txVars>>

\* --------------------------------------- the receiver: interrupt, finally

TryPcs == {"recv", "put", "report"}

\* SIGTSTP (handle_sigTSTP) or SIGINT: KeyboardInterrupt raised in main.
\* Inside the try it is caught and the finally clause runs; before the try,
\* and inside the finally clause, it ends the process with the traceback.
Interrupt ==
  /\ Alive
  /\ interrupts < MaxInterrupts
  /\ interrupts' = interrupts + 1
  /\ raised_at' = pc
  /\ IF pc \in TryPcs
     THEN /\ exc' = "KeyboardInterrupt"
          /\ pc' = "finally_stop"
          /\ UNCHANGED exit_code
     ELSE /\ exc' = "KeyboardInterrupt"
          /\ pc' = "crashed"
          /\ exit_code' = 130
  /\ UNCHANGED <<args, env, sock, wav_writer, playback_queue, playback_stats,
                 buffered_bytes, stop_event, packet, now, shutdown, audioVars,
                 stats, call, codecVars, txVars>>

\* stop_event.set()
FinallyStop ==
  /\ pc = "finally_stop"
  /\ stop_event' = TRUE
  /\ shutdown' = Append(shutdown, "stop")
  /\ pc' = "finally_join"
  /\ UNCHANGED <<args, env, exc, exit_code, sock, wav_writer, playback_queue,
                 playback_stats, buffered_bytes, packet, now, interrupts,
                 raised_at, audioVars, stats, call, codecVars, txVars>>

\* if audio_thread_obj: audio_thread_obj.join(timeout=2.0), which returns
\* when the thread has ended or the two seconds are over
FinallyJoin ==
  /\ pc = "finally_join"
  /\ shutdown' = IF audio # "none" THEN Append(shutdown, "join") ELSE shutdown
  /\ pc' = "finally_wav"
  /\ UNCHANGED <<args, env, exc, exit_code, sock, wav_writer, playback_queue,
                 playback_stats, buffered_bytes, stop_event, packet, now,
                 interrupts, raised_at, audioVars, stats, call, codecVars, txVars>>

\* if wav_writer is not None: wav_writer.close()
FinallyWav ==
  /\ pc = "finally_wav"
  /\ IF wav_writer.state = "open"
     THEN /\ wav_writer' = [wav_writer EXCEPT !.state = "closed"]
          /\ shutdown' = Append(shutdown, "wav")
     ELSE UNCHANGED <<wav_writer, shutdown>>
  /\ pc' = "finally_sock"
  /\ UNCHANGED <<args, env, exc, exit_code, sock, playback_queue,
                 playback_stats, buffered_bytes, stop_event, packet, now,
                 interrupts, raised_at, audioVars, stats, call, codecVars, txVars>>

\* sock.close(); then return 0 after a caught KeyboardInterrupt, and the
\* traceback of any other exception
FinallySock ==
  /\ pc = "finally_sock"
  /\ sock' = "closed"
  /\ shutdown' = Append(shutdown, "sock")
  /\ IF exc = "KeyboardInterrupt"
     THEN pc' = "done" /\ exit_code' = 0
     ELSE pc' = "crashed" /\ exit_code' = 1
  /\ UNCHANGED <<args, env, exc, wav_writer, playback_queue, playback_stats,
                 buffered_bytes, stop_event, packet, now, interrupts,
                 raised_at, audioVars, stats, call, codecVars, txVars>>

\* ------------------------------ the receiver: audio thread and callback

\* Frame counts the sink asks for: one frame, and a chunk of silence's worth.
FrameInputs == {1, ZERO_CHUNK_FRAMES}

\* PlaybackStats.record_underflow
RecordUnderflow(ps) == [ps EXCEPT !.underflows = @ + 1]

\* PlaybackStats.observe_depth
ObserveDepth(ps, depth) == [ps EXCEPT !.max_depth = Max(@, depth)]

\* with sd.RawOutputStream(..., callback=callback): the stream opens (a
\* device that cannot be opened is not modelled)
AudioOpen ==
  /\ Alive
  /\ audio = "started"
  /\ audio' = "playing"
  /\ UNCHANGED <<mainVars, needed_bytes, pending, outdata, callbacks, sink, fed,
                 stats,
                 call, codecVars, txVars>>

\* while not stop_event.is_set(): time.sleep(0.1) ends; the stream closes
AudioExit ==
  /\ Alive
  /\ audio = "playing"
  /\ stop_event
  /\ audio' = "exited"
  /\ UNCHANGED <<mainVars, needed_bytes, pending, outdata, callbacks, sink, fed,
                 stats,
                 call, codecVars, txVars>>

RECURSIVE QueueBytes(_)
QueueBytes(items) ==
  IF items = <<>> THEN 0 ELSE BLen(Head(items)) + QueueBytes(Tail(items))

\* data followed by every chunk of items, in order
RECURSIVE JoinChunks(_, _)
JoinChunks(data, items) ==
  IF items = <<>> THEN data
  ELSE JoinChunks(BCat(data, Head(items)), Tail(items))

\* The callback's loop taking the newest chunk first.
RECURSIVE FillNewestFirst(_, _, _)
FillNewestFirst(pend, items, needed) ==
  IF BLen(pend) >= needed
  THEN [pending |-> pend, items |-> items, empty |-> FALSE]
  ELSE IF items = <<>>
  THEN [pending |-> pend, items |-> items, empty |-> TRUE]
  ELSE FillNewestFirst(BCat(pend, items[Len(items)]),
                       SubSeq(items, 1, Len(items) - 1), needed)

\* The callback's loop: chunks are taken with get_nowait until pending holds
\* needed bytes or the queue is empty.  The result is pending, what is left
\* of the queue, and whether queue.Empty was raised.
RECURSIVE Fill(_, _, _)
Fill(pend, items, needed) ==
  IF BLen(pend) >= needed
  THEN [pending |-> pend, items |-> items, empty |-> FALSE]
  ELSE IF items = <<>>
  THEN [pending |-> pend, items |-> items, empty |-> TRUE]
  ELSE Fill(BCat(pend, Head(items)), Tail(items), needed)

\* The loop with play_queue.get() in place of get_nowait(): it has no
\* answer while the queue is empty and pending is short.
CallbackWaiting(frames) ==
  \E needed \in {frames * BytesPerFrame} :
  \E filled \in {Fill(pending, playback_queue.items, needed)} :
      /\ ~filled.empty
      /\ needed_bytes' = needed
      /\ playback_stats' =
           ObserveDepth(playback_stats, Len(playback_queue.items))
      /\ playback_queue' = [playback_queue EXCEPT !.items = filled.items]
      /\ outdata' = BTake(filled.pending, needed)
      /\ pending' = BDrop(filled.pending, needed)

\* The callback counting the underflow and leaving the shortfall unpadded.
CallbackNoPad(frames) ==
  \E needed \in {frames * BytesPerFrame} :
  \E filled \in {Fill(pending, playback_queue.items, needed)} :
  \E missing \in {needed - BLen(filled.pending)} :
      /\ needed_bytes' = needed
      /\ playback_stats' =
           IF filled.empty /\ missing > 0
           THEN RecordUnderflow(
                  ObserveDepth(playback_stats, Len(playback_queue.items)))
           ELSE ObserveDepth(playback_stats, Len(playback_queue.items))
      /\ playback_queue' = [playback_queue EXCEPT !.items = filled.items]
      /\ outdata' = BTake(filled.pending, needed)
      /\ pending' = BDrop(filled.pending, needed)

\* callback(outdata, frames, time_info, status), start to end
Callback(frames) ==
  \E needed \in {frames * BytesPerFrame} :
  \E filled \in {Fill(pending, playback_queue.items, needed)} :
  \E missing \in {needed - BLen(filled.pending)} :
  \E padded \in {IF filled.empty /\ missing > 0
                 THEN BCat(filled.pending, BZeros(missing))
                 ELSE filled.pending} :
      /\ needed_bytes' = needed
      /\ playback_stats' =
           IF filled.empty /\ missing > 0
           THEN RecordUnderflow(
                  ObserveDepth(playback_stats, Len(playback_queue.items)))
           ELSE ObserveDepth(playback_stats, Len(playback_queue.items))
      /\ playback_queue' = [playback_queue EXCEPT !.items = filled.items]
      /\ outdata' = BTake(padded, needed)
      /\ pending' = BDrop(padded, needed)

\* The sink asks for frames while the stream is open.
RenderCallbackFor(frames) ==
  /\ Alive
  /\ audio = "playing"
  /\ callbacks < MaxCallbacks
  /\ Callback(frames)
  /\ callbacks' = callbacks + 1
  /\ sink' = BCat(sink, outdata')
  /\ fed' = LET taken == SubSeq(playback_queue.items, 1,
                                Len(playback_queue.items)
                                  - Len(playback_queue'.items))
                got == BLen(pending) + QueueBytes(taken)
            IN  BCat(JoinChunks(fed, taken),
                     IF playback_stats'.underflows > playback_stats.underflows
                     THEN BZeros(needed_bytes' - got) ELSE <<>>)
  /\ UNCHANGED <<args, env, pc, exc, exit_code, sock, wav_writer,
                 buffered_bytes, stop_event, packet, now, shutdown,
                 interrupts, raised_at, audio, stats, call, codecVars, txVars>>

RenderCallback == \E frames \in FrameInputs : RenderCallbackFor(frames)

\* --------------------------------------------------------- the receiver

Next ==
  \/ Validate
  \/ OpenWav
  \/ SetupPlayback
  \/ SetupNoAudio
  \/ SetupNoSounddevice
  \/ PrefillPut
  \/ PrefillDone
  \/ StartAudio
  \/ RecvTimeout
  \/ RecvUndersized
  \/ RecvPacket
  \/ PutOk
  \/ PutFull
  \/ ReportStep
  \/ Interrupt
  \/ FinallyStop
  \/ FinallyJoin
  \/ FinallyWav
  \/ FinallySock
  \/ AudioOpen
  \/ AudioExit
  \/ RenderCallback

Spec == Init /\ [][Next]_vars

\* ------------------------------------------------ the receiver's claims

\* C4: a datagram of at most 12 bytes is skipped.  The step that receives it
\* leaves the tracker, the jitter queue, the playback counters and the WAV
\* file as they were, raises nothing, and leaves main at the head of the
\* receive loop, where the next datagram is taken as if this one had never
\* arrived.
C4_UndersizedSkipped ==
  [][ (pc = "recv" /\ packet' # packet /\ BLen(packet') <= 12) =>
        /\ pc' = "recv"
        /\ exc' = exc
        /\ exit_code' = exit_code
        /\ UNCHANGED <<stats, playback_queue, playback_stats, wav_writer,
                       buffered_bytes, sock, stop_event, shutdown>>
    ]_vars

\* An undersized datagram was taken after a well-formed one had been
\* counted and queued, and the loop is ready for the next.
C4_Witness ==
  /\ pc = "recv"
  /\ BLen(packet) = 12
  /\ stats.total_received = 1
  /\ playback_queue.state = "Queue"
  /\ exc = "none"
  /\ ENABLED RecvPacket

\* C5: with playback enabled, when prefill has finished and neither the
\* audio thread has been started nor a payload pushed, the queue holds
\* target_buffer_bytes bytes in total and every one of them is zero.
C5_PrefillSilence ==
  pc = "start_audio" =>
    /\ audio = "none"
    /\ stats.total_received = 0
    /\ QueueBytes(playback_queue.items) = TargetBufferBytes
    /\ \A i \in DOMAIN playback_queue.items :
         BAllZero(playback_queue.items[i])

\* Prefill finished with a full chunk and a shorter last one.
C5_Witness ==
  /\ pc = "start_audio"
  /\ Len(playback_queue.items) = 2
  /\ BLen(playback_queue.items[1]) = 1024
  /\ BLen(playback_queue.items[2]) = 176

\* C6: a callback asked for N = frames * bytes_per_frame bytes hands the
\* sink N bytes.  When pending and the queued chunks together hold fewer
\* than N bytes, these are all of them, in order, followed by zeros, and the
\* underflow counter goes up by 1 whatever the shortfall; otherwise the
\* underflow counter stays.
C6_CallbackExact ==
  [][ callbacks' = callbacks + 1 =>
        LET N == needed_bytes'
            avail == BLen(pending) + QueueBytes(playback_queue.items)
        IN  /\ \E frames \in FrameInputs : N = frames * INT16_BYTES * args.channels
            /\ BLen(outdata') = N
            /\ avail < N =>
                 /\ outdata' = BCat(JoinChunks(pending, playback_queue.items),
                                    BZeros(N - avail))
                 /\ playback_stats'.underflows = playback_stats.underflows + 1
            /\ avail >= N =>
                 playback_stats'.underflows = playback_stats.underflows
    ]_vars

\* A callback ran short after real audio: silence, a payload, padding.
C6_Witness ==
  /\ callbacks = 2
  /\ playback_stats.underflows = 1
  /\ BLen(outdata) = 1024
  /\ outdata = <<<<0, 176>>, <<1, 1>>, <<2, 1>>, <<3, 2>>, <<0, 844>>>>

\* C7: the callback never waits for the producer.  Whenever the stream is
\* open, a callback for any frame count can run to its end at once,
\* whatever main is doing: blocked in recvfrom, inside put with the queue
\* full, or in the finally clause, and with the queue empty or not.
C7_CallbackNeverWaits ==
  (Alive /\ audio = "playing" /\ callbacks < MaxCallbacks) =>
    \A frames \in FrameInputs : ENABLED RenderCallbackFor(frames)

\* The stream is open while main is inside put with the queue full ...
C7_Witness ==
  /\ pc = "put"
  /\ Len(playback_queue.items) = QUEUE_MAXSIZE
  /\ audio = "playing"
  /\ callbacks < MaxCallbacks

\* One step of main inside playback_queue.put.
PutStep == PutOk \/ PutFull

\* C8: the jitter queue never holds more than 64 entries, prefill included.
\* A put that finds it full for the whole wait drops the chunk: the queue
\* and the tracker stay as they are and main goes on to the report check
\* and the next datagram; main inside put can always take a step.
C8_QueueBounded ==
  /\ [](/\ Len(playback_queue.items) <= 64
        /\ pc = "put" => ENABLED PutStep)
  /\ [][ (pc = "put" /\ Len(playback_queue.items) = 64 /\ pc' # "put"
          /\ interrupts' = interrupts) =>
           /\ pc' = "report"
           /\ exc' = exc
           /\ UNCHANGED <<playback_queue, stats, wav_writer>>
       ]_vars

\* A payload was dropped at the full queue, which still holds its 64
\* chunks of silence.
C8_Witness ==
  /\ pc = "report"
  /\ stats.total_received = 1
  /\ Len(playback_queue.items) = 64
  /\ \A i \in DOMAIN playback_queue.items : BAllZero(playback_queue.items[i])
  /\ audio = "started"

\* C9: without --no-audio and without the sounddevice module the receiver
\* runs on, stats only: no playback queue is made and the receive loop
\* fails on no datagram; main leaves it only on a user interrupt.
C9_StatsOnly ==
  (~args.no_audio /\ ~env.sd) =>
    /\ playback_queue.state # "Queue"
    /\ exc \in {"none", "KeyboardInterrupt"}
    /\ pc \in TryPcs \/ stats.total_received = 0 \/ interrupts > 0

\* The finally clause's steps for this run, in order.
ShutdownSteps ==
  <<"stop">> \o (IF audio # "none" THEN <<"join">> ELSE <<>>)
             \o (IF wav_writer.state # "None" THEN <<"wav">> ELSE <<>>)
             \o <<"sock">>

\* C10: a user interrupt delivered once the receive loop has been entered
\* ends in the shutdown sequence, whole and in order (stop flag set, audio
\* thread joined, WAV writer closed, socket closed), and exit code 0; the
\* socket is never closed before the stop flag is set.  It is stated here
\* for the runs in which playback_queue is bound.
C10_GracefulShutdown ==
  /\ sock = "closed" => stop_event
  /\ (raised_at \in TryPcs \cup {"finally_stop", "finally_join",
                                 "finally_wav", "finally_sock"}
      /\ playback_queue.state # "unbound"
      /\ ~Alive) =>
       /\ exit_code = 0
       /\ shutdown = ShutdownSteps
       /\ sock = "closed"
       /\ wav_writer.state # "open"

\* One interrupt in the receive loop, and the whole sequence ran.
C10_Witness ==
  /\ pc = "done"
  /\ exit_code = 0
  /\ interrupts = 1
  /\ shutdown = <<"stop", "join", "wav", "sock">>
  /\ sock = "closed"

\* ------------------------------------------------------------ the sender

\* a * m for a small factor m
IntMul(a, m) == <<a[1] * m + ((a[2] * m) \div Base), (a[2] * m) % Base>>

\* samples_per_packet, the interval in clock ticks, and the tone: 2 bytes
\* per sample, the first sample sin(0) = 0.
TxArgsInputs ==
  { [samples_per_packet |-> 1, interval_s |-> 2,
     pcm_payload |-> <<<<0, 2>>>>],
    [samples_per_packet |-> 882, interval_s |-> 3,
     pcm_payload |-> <<<<0, 2>>, <<7, 1762>>>>] }

\* Iterations already completed when the run shown starts: none, as many
\* as take 882 samples per packet to the wrap of sample_counter, and two
\* short of the wrap of seq.
IterationInputs == { <<0, 0>>, <<74, 19913>>, <<Base - 1, Base - 2>> }

\* time.time_ns() // 1000: a clock that was never set (5 ms after the
\* epoch), the last microsecond that fits 32 bits, the first that does not
\* (01:11:34.967296 on 1 January 1970), and a later date.
ClockInputs == { <<0, 5000>>, U32Max, <<Base, 0>>, <<400000000, 0>> }

\* Ticks gone by since the clock was last read, at the top of the loop.
OverheadInputs == {0, 1, 4}

\* Ticks by which time.sleep overshoots.
OversleepInputs == {0, 1}

\* The loop after k0 iterations; k0 = 0 is seq = 0, sample_counter = 0,
\* next_send = time.perf_counter().
InitTx ==
  /\ MainOff /\ AudioOff /\ CodecOff
  /\ stats = NewStats(0)
  /\ call = <<>>
  /\ \E a \in TxArgsInputs, k \in IterationInputs :
       /\ tx_args = a
       /\ k0 = k
       /\ tx_seq = Mask32(k)
       /\ tx_sample_counter = Mask32(IntMul(k, a.samples_per_packet))
  /\ tx_pc = "loop"
  /\ tx_exc = "none"
  /\ next_send = 0
  /\ tx_now = 0
  /\ iterations = 0
  /\ sent = NoSend
  /\ first_seq = <<>>

\* sample_counter = (sample_counter + samples_per_packet) with the mask
\* left out
TxNextSampleCounterNoMask(counter, samples_per_packet) ==
  IntAdd(counter, <<0, samples_per_packet>>)

\* sample_counter = (sample_counter + samples_per_packet) & 0xFFFFFFFF
TxNextSampleCounter(counter, samples_per_packet) ==
  Mask32(IntAdd(counter, <<0, samples_per_packet>>))

\* next_send = now + interval_s
NextDeadlineFromNow(deadline, at, interval_s) == at + interval_s

\* next_send += interval_s
NextDeadline(deadline, at, interval_s) == deadline + interval_s

\* if now < next_send: time.sleep(next_send - now); when the send happens
SendTime(reading, deadline, oversleep) ==
  IF reading < deadline THEN deadline + oversleep ELSE reading

\* One iteration of while True: the sleep, the timestamp, struct.pack,
\* sendto, the short-send warning and the three updates.  struct.pack
\* raises struct.error for a field outside 0..2^32-1.
TxIteration ==
  /\ tx_pc = "loop"
  /\ iterations < MaxSends
  /\ \E overhead \in OverheadInputs, oversleep \in OversleepInputs,
        clock \in ClockInputs, short \in {0, 1} :
       LET reading == tx_now + overhead
           at == SendTime(reading, next_send, oversleep)
           datagram == Encode(tx_seq, tx_sample_counter, clock,
                              tx_args.pcm_payload)
       IN  /\ tx_now' = at
           /\ IF IsU32(tx_seq) /\ IsU32(tx_sample_counter) /\ IsU32(clock)
              THEN /\ sent' = [datagram |-> datagram, clock |-> clock,
                               at |-> at, deadline |-> next_send,
                               slept |-> reading < next_send,
                               returned |-> BLen(datagram) - short]
                   /\ tx_seq' = TxNextSeq(tx_seq)
                   /\ tx_sample_counter' =
                        TxNextSampleCounter(tx_sample_counter,
                                            tx_args.samples_per_packet)
                   /\ next_send' =
                        NextDeadline(next_send, at, tx_args.interval_s)
                   /\ iterations' = iterations + 1
                   /\ UNCHANGED <<tx_pc, tx_exc>>
              ELSE /\ tx_exc' = "struct.error"
                   /\ tx_pc' = "finally"
                   /\ UNCHANGED <<sent, tx_seq, tx_sample_counter,
                                  next_send, iterations>>
  /\ UNCHANGED <<mainVars, audioVars, stats, call, codecVars, tx_args, k0,
                 first_seq>>

\* except KeyboardInterrupt: the user stops the stream
TxInterrupt ==
  /\ tx_pc = "loop"
  /\ tx_exc' = "KeyboardInterrupt"
  /\ tx_pc' = "finally"
  /\ UNCHANGED <<mainVars, audioVars, stats, call, codecVars, tx_args,
                 tx_seq, tx_sample_counter, next_send, tx_now, k0,
                 iterations, sent, first_seq>>

\* finally: sock.close(); return 0 after the interrupt, the traceback
\* otherwise
TxFinally ==
  /\ tx_pc = "finally"
  /\ tx_pc' = IF tx_exc = "KeyboardInterrupt" THEN "done" ELSE "crashed"
  /\ UNCHANGED <<mainVars, audioVars, stats, call, codecVars, tx_args,
                 tx_exc, tx_seq, tx_sample_counter, next_send, tx_now, k0,
                 iterations, sent, first_seq>>

TxNext == TxIteration \/ TxInterrupt \/ TxFinally

SpecTx == InitTx /\ [][TxNext]_vars

\* C11: every iteration of the sender's loop transmits: struct.pack never
\* fails, and the datagram of each iteration is the 12-byte header of three
\* unsigned 32-bit fields, the third the wall-clock microseconds read in
\* that iteration, followed by the payload.
C11_EverySendSucceeds ==
  /\ tx_exc # "struct.error"
  /\ tx_pc # "crashed"
  /\ iterations > 0 =>
       /\ BLen(sent.datagram) = 12 + BLen(tx_args.pcm_payload)
       /\ \A i \in 1..3 : IsU32(UnpackHeader(sent.datagram)[i])
       /\ UnpackHeader(sent.datagram)[3] = sent.clock
       /\ PayloadOf(sent.datagram) = tx_args.pcm_payload

\* With a clock inside the first 2^32 microseconds of 1970 a datagram goes
\* out, stamped with the clock.
C11_Witness ==
  /\ iterations = 1
  /\ sent.clock = U32Max
  /\ BLen(sent.datagram) = 1776
  /\ UnpackHeader(sent.datagram) = <<<<74, 19913>>, <<65535, 65154>>, U32Max>>

\* C15: the k-th packet sent, k counted from 0, carries sequence
\* k mod 2^32 and sample_counter (k * samples_per_packet) mod 2^32, and the
\* loop's two counters stand at the values of packet k + 1; that holds
\* across both wraps and after a short send, which is neither repeated nor
\* skipped.
C15_SenderCounters ==
  tx_pc # "off" =>
    /\ tx_seq = Mask32(IntAdd(k0, <<0, iterations>>))
    /\ tx_sample_counter =
         Mask32(IntMul(IntAdd(k0, <<0, iterations>>),
                       tx_args.samples_per_packet))
    /\ iterations > 0 =>
         LET k == IntAdd(k0, <<0, iterations - 1>>)
             header == UnpackHeader(sent.datagram)
         IN  /\ header[1] = Mask32(k)
             /\ header[2] = Mask32(IntMul(k, tx_args.samples_per_packet))

\* Packet 2^32, sent short, carried sequence 0, and packet 2^32 + 1 is next.
C15_Witness ==
  /\ k0 = <<Base - 1, Base - 2>>
  /\ iterations = 3
  /\ tx_args.samples_per_packet = 882
  /\ sent.returned < BLen(sent.datagram)
  /\ UnpackHeader(sent.datagram)[1] = <<0, 0>>
  /\ UnpackHeader(sent.datagram)[2] = <<0, 0>>
  /\ tx_seq = <<0, 1>>
  /\ tx_sample_counter = <<0, 882>>

\* C16: the deadline of the k-th send of a run is start + k * interval
\* however late earlier sleeps and sends returned; no packet is sent before
\* its deadline; an iteration that starts past its deadline sends without
\* sleeping.  start is the deadline the run begins with.
C16_DriftCorrected ==
  /\ [](tx_pc # "off" =>
          /\ next_send = iterations * tx_args.interval_s
          /\ iterations > 0 =>
               /\ sent.deadline = (iterations - 1) * tx_args.interval_s
               /\ sent.at >= sent.deadline)
  /\ [][ iterations' = iterations + 1 =>
           /\ tx_now >= next_send => (~sent'.slept /\ sent'.at >= tx_now)
           /\ sent'.slept => tx_now < next_send
       ]_vars

\* The third send went out eight ticks behind its deadline, without a sleep.
C16_Witness ==
  /\ iterations = 3
  /\ tx_args.interval_s = 2
  /\ sent.deadline = 4
  /\ sent.at = 12
  /\ ~sent.slept
  /\ next_send = 6

\* ------------------------------------- the receiver's claims, continued

\* One turn of main inside the prefill loop, or its end.
PrefillStep == PrefillPut \/ PrefillDone

\* C12: prefill terminates for every accepted configuration: main in the
\* prefill loop can always take its next step, so the loop runs on until
\* target_buffer_bytes of silence are queued and main goes on to the
\* receive loop.
C12_PrefillTerminates == pc = "prefill" => ENABLED PrefillStep

\* With a jitter depth of exactly 64 chunks prefill ends and main is in
\* the receive loop.
C12_Witness ==
  /\ pc = "recv"
  /\ args.jitter_buffer_ms = 1000
  /\ Len(playback_queue.items) = QUEUE_MAXSIZE
  /\ stats.total_received = 0
  /\ interrupts = 0

\* C13: with playback active, every report, after a processed packet or in
\* the timeout branch, leaves received_since_last_report, the underflow
\* count and the maximum observed depth at 0 and total_received,
\* lost_packets and total_bytes as they were.
C13_ReportResets ==
  [][ (stats'.last_report # stats.last_report
       /\ playback_queue.state = "Queue") =>
        /\ stats'.received_since_last_report = 0
        /\ playback_stats'.underflows = 0
        /\ playback_stats'.max_depth = 0
        /\ stats'.total_received = stats.total_received
        /\ stats'.lost_packets = stats.lost_packets
        /\ stats'.total_bytes = stats.total_bytes
    ]_vars

\* A report after a processed packet has zeroed the window counters that
\* two callbacks had raised.
C13_Witness ==
  /\ pc = "recv"
  /\ stats.last_report = REPORT_PERIOD
  /\ stats.total_received = 1
  /\ stats.received_since_last_report = 0
  /\ callbacks = 2
  /\ sink # <<>>
  /\ playback_stats = [exists |-> TRUE, underflows |-> 0, max_depth |-> 0]

\* An iteration of the receive loop comes to its end: a timeout or an
\* undersized datagram (continue), or the report check after a packet.
IterationEnds ==
  \/ pc = "recv" /\ pc' = "recv" /\ (now' # now \/ packet' # packet)
  \/ pc = "report" /\ pc' = "recv"

\* C14: once the report period has elapsed, the iteration of the receive
\* loop that ends next emits the report, whether it ends on a timeout, an
\* undersized datagram or a well-formed one: no iteration ends with a
\* report overdue.
C14_ReportEveryPeriod ==
  [][ IterationEnds => ~ReportNeeded(stats', now', REPORT_PERIOD) ]_vars

\* The report was emitted by the iteration that ended on the timeout at
\* the fifth second.
C14_Witness ==
  /\ pc = "recv"
  /\ now = REPORT_PERIOD
  /\ stats.last_report = REPORT_PERIOD
  /\ stats.total_received = 0
  /\ packet = <<>>

\* round(n / d), halves to the even neighbour as Python's round does
RoundDiv(n, d) ==
  LET q == n \div d
      r == n % d
  IN  IF 2 * r < d THEN q
      ELSE IF 2 * r > d THEN q + 1
      ELSE IF q % 2 = 0 THEN q ELSE q + 1

\* The jitter depth in samples as specified.
RoundedSamples == RoundDiv(args.sample_rate * args.jitter_buffer_ms, 1000)

\* The configurations the receiver is specified to refuse.
Refused ==
  \/ args.sample_rate <= 0
  \/ args.channels <= 0
  \/ RoundedSamples <= 0
  \/ args.save_wav /\ ~env.wave

\* C17: the receiver returns 1 before the receive loop exactly for a
\* non-positive sample rate or channel count, a jitter depth that rounds to
\* zero samples, or a WAV capture asked for without the wave module; every
\* other configuration starts, with jitter_buffer_samples the rounded
\* sample_rate * jitter_ms / 1000 and target_buffer_bytes that many frames.
C17_ExitConditions ==
  pc # "off" =>
    /\ Refused => pc \in {"validate", "open_wav", "done", "crashed"}
    /\ (Refused /\ pc = "done") => (exit_code = 1 /\ shutdown = <<>>)
    /\ (~Refused /\ shutdown = <<>>) => exit_code # 1
    /\ (~Refused /\ pc \notin {"validate", "done", "crashed"}) =>
         /\ JitterBufferSamples = RoundedSamples
         /\ TargetBufferBytes = RoundedSamples * BytesPerFrame

\* A capture asked for without the wave module was refused after the
\* socket was opened.
C17_Witness ==
  /\ pc = "done"
  /\ exit_code = 1
  /\ args.save_wav /\ ~env.wave
  /\ sock = "open"
  /\ shutdown = <<>>

\* ------------------------------------- sender, lossy network, tracker

\* Lengths of a run of consecutive packets that the network drops.
BurstInputs == { <<0, 1>>, <<0, 2>>, <<0, Base - 1>>, <<Base \div 2, 0>>,
                 <<Base - 2, Base - 3>> }

\* a < b for two numbers in limbs
IntLess(a, b) == a[1] < b[1] \/ (a[1] = b[1] /\ a[2] < b[2])

\* The sender at seq = 0 and a tracker that has seen nothing.
InitLossy ==
  /\ MainOff /\ AudioOff /\ CodecOff
  /\ stats = NewStats(0)
  /\ call = <<>>
  /\ tx_args = [samples_per_packet |-> 1, interval_s |-> 2,
                pcm_payload |-> <<<<0, 2>>>>]
  /\ tx_pc = "loop"
  /\ tx_exc = "none"
  /\ tx_seq = <<0, 0>>
  /\ tx_sample_counter = <<0, 0>>
  /\ next_send = 0
  /\ tx_now = 0
  /\ k0 = <<0, 0>>
  /\ iterations = 0
  /\ sent = NoSend
  /\ first_seq = <<>>

\* The sender's next packet reaches the receiver, which unpacks it and
\* calls stats.update with the sequence number and the payload length it
\* finds; the sender moves on to the next.
LossyDeliver ==
  /\ tx_pc = "loop"
  /\ stats.total_received < MaxUpdates
  /\ IntLess(k0, <<Base, 0>>)
  /\ \E clock \in ClockInputs :
       /\ IsU32(clock)
       /\ \E datagram \in {Encode(tx_seq, tx_sample_counter, clock,
                                  tx_args.pcm_payload)} :
            /\ ~Undersized(datagram)
            /\ call' = <<UnpackHeader(datagram)[1], BLen(PayloadOf(datagram))>>
            /\ stats' = Update(stats, UnpackHeader(datagram)[1],
                               BLen(PayloadOf(datagram)))
            /\ first_seq' = IF first_seq = <<>>
                            THEN UnpackHeader(datagram)[1] ELSE first_seq
  /\ tx_seq' = TxNextSeq(tx_seq)
  /\ tx_sample_counter' =
       TxNextSampleCounter(tx_sample_counter, tx_args.samples_per_packet)
  /\ k0' = IntAdd(k0, <<0, 1>>)
  /\ UNCHANGED <<mainVars, audioVars, codecVars, tx_args, tx_pc, tx_exc,
                 next_send, tx_now, iterations, sent>>

\* The sender's next packets, burst of them, are all dropped on the way:
\* the two counters move on that many times over.  The packets sent stay
\* fewer than 2^32.
LossyDrop ==
  /\ tx_pc = "loop"
  /\ iterations < MaxBursts
  /\ \E burst \in BurstInputs :
       /\ IntLess(IntAdd(k0, burst), <<Base, 0>>)
       /\ tx_seq' = Mask32(IntAdd(tx_seq, burst))
       /\ tx_sample_counter' =
            Mask32(IntAdd(tx_sample_counter,
                          IntMul(burst, tx_args.samples_per_packet)))
       /\ k0' = IntAdd(k0, burst)
  /\ iterations' = iterations + 1
  /\ UNCHANGED <<mainVars, audioVars, codecVars, stats, call, tx_args,
                 tx_pc, tx_exc, next_send, tx_now, sent, first_seq>>

\* struct.pack raises on a timestamp of 2^32 or more: the sender stops.
LossySendFails ==
  /\ tx_pc = "loop"
  /\ \E clock \in ClockInputs : ~IsU32(clock)
  /\ tx_exc' = "struct.error"
  /\ tx_pc' = "crashed"
  /\ UNCHANGED <<mainVars, audioVars, codecVars, stats, call, tx_args,
                 tx_seq, tx_sample_counter, next_send, tx_now, k0,
                 iterations, sent, first_seq>>

LossyNext == LossyDeliver \/ LossyDrop \/ LossySendFails

SpecLossy == InitLossy /\ [][LossyNext]_vars

\* C18: when the network only drops packets and fewer than 2^32 are sent,
\* lost_packets is the number of the sender's packets between the first and
\* the last one received that did not arrive:
\* lost_packets + total_received = (last_seq - first_seq) + 1.
C18_LossAccounting ==
  first_seq # <<>> =>
    IntAdd(stats.lost_packets, <<0, stats.total_received>>) =
      IntAdd(IntSub(stats.last_seq, first_seq), <<0, 1>>)

\* Four packets arrived around bursts of 1, 65535 and 2^31 lost ones.
C18_Witness ==
  /\ stats.total_received = 4
  /\ first_seq = <<0, 0>>
  /\ stats.lost_packets = <<Base \div 2 + 1, 0>>
  /\ stats.last_seq = <<Base \div 2 + 1, 3>>

\* ----------------------------------------- the feeder and the statistics

\* C19: over any sequence of callbacks the bytes handed to the sink,
\* followed by those still in pending, are the chunks taken off the queue,
\* oldest first, with zeros added only at the callbacks that recorded an
\* underflow; a callback takes chunks from the front of the queue and
\* leaves the rest in place, and what it does not hand over stays in
\* pending for the next.
C19_FifoConservation ==
  /\ [](BCat(sink, pending) = fed)
  /\ [][ callbacks' = callbacks + 1 =>
           LET taken == Len(playback_queue.items) - Len(playback_queue'.items)
           IN  /\ taken >= 0
               /\ playback_queue'.items =
                    SubSeq(playback_queue.items, taken + 1,
                           Len(playback_queue.items))
               /\ BLen(sink') = BLen(sink) + needed_bytes'
       ]_vars

\* Two callbacks of 256 frames took the 1200 bytes of prefill and the start
\* of a payload; its other 4152 bytes wait in pending.
C19_Witness ==
  /\ callbacks = 2
  /\ sink = <<<<0, 1200>>, <<9, 848>>>>
  /\ pending = <<<<9, 4152>>>>
  /\ playback_queue.items = <<>>
  /\ playback_stats.underflows = 0

\* C20: the statistics do not depend on the queue.  A datagram is counted
\* when it is received and at no other point: total_received and
\* received_since_last_report go up by 1 and total_bytes by the payload
\* length, and the payload goes to the WAV file; the put that follows,
\* queued or dropped, changes neither the tracker nor the file, so the
\* bytes captured are always total_bytes.
C20_StatsIndependent ==
  /\ [](wav_writer.state = "open" =>
          BLen(wav_writer.frames) = stats.total_bytes)
  /\ [][ /\ (pc = "recv" /\ pc' \in {"put", "report", "finally_stop"}
             /\ interrupts' = interrupts) =>
              /\ stats'.total_received = stats.total_received + 1
              /\ stats'.received_since_last_report =
                   stats.received_since_last_report + 1
              /\ stats'.total_bytes =
                   stats.total_bytes + BLen(packet') - HEADER_LEN
              /\ wav_writer.state = "open" =>
                   wav_writer'.frames =
                     BCat(wav_writer.frames, BDrop(packet', 12))
         /\ pc = "put" =>
              /\ stats' = stats
              /\ wav_writer' = wav_writer
         /\ pc # "recv" =>
              /\ stats'.total_received = stats.total_received
              /\ stats'.total_bytes = stats.total_bytes
              /\ stats'.lost_packets = stats.lost_packets
       ]_vars

\* Two datagrams were counted and captured while the queue stayed full of
\* prefill silence, both payloads dropped.
C20_Witness ==
  /\ pc = "recv"
  /\ stats.total_received = 2
  /\ stats.total_bytes = 8
  /\ wav_writer.state = "open"
  /\ BLen(wav_writer.frames) = 8
  /\ Len(playback_queue.items) = QUEUE_MAXSIZE
  /\ \A i \in DOMAIN playback_queue.items : BAllZero(playback_queue.items[i])

====
